---- MODULE Spec2Model ----
(***************************************************************************)
(* A model of the panuts.com catalogue scraper (scraper/scraper.py) and of *)
(* the attribute enrichment script (scraper/enrich-attributes.py).         *)
(*                                                                         *)
(* Spec            one run of scraper.main: robots policy, discovery,      *)
(*                 product pages, output file.                             *)
(* FairSpec        Spec with weak fairness of its steps (the script is one *)
(*                 sequential control flow that always takes its next      *)
(*                 step).                                                  *)
(* SpecEnrich      one run of enrich-attributes.main over an input array.  *)
(* SpecAttributes  scraper.extract_attributes and the extraction inside    *)
(*                 enrich-attributes.fetch_attributes on one page.         *)
(* SpecPrice       parse_price on one text.                                *)
(* SpecProduct     parse_product_page on one page.                         *)
(***************************************************************************)
EXTENDS Integers, Sequences, FiniteSets, TLC

\* ------------------------------------------------------------------ bounds

\* SCRAPER_MAX_PAGES, the page-visit budget (configurable; 20 by default).
MAX_PAGES == 3

\* ---------------------------------------------------------------- the site

ROOT == "/"
EntryPoints == <<"/tienda/", "/shop/", "/productos/", ROOT>>
CategoryUrls == {"/categoria/vinos/", "/categoria/vinos/page/2/"}
ListingUrls == {EntryPoints[i] : i \in 1..Len(EntryPoints)} \cup CategoryUrls

\* The product URLs of the site, in ascending string order.
ProductOrder == <<"/producto/a/", "/producto/b/", "/producto/c/">>
ProductUrls == {ProductOrder[i] : i \in 1..Len(ProductOrder)}

\* Anchors that are no product page of this site.
OffSite == "https://other.example/producto/z/"
NoSlug == "/producto/"
OtherAnchors == {OffSite, NoSlug, "/blog/post/"}

AllUrls == ListingUrls \cup ProductUrls \cup OtherAnchors

UA == "Mozilla/5.0 (compatible; WCMeilisearchBot/1.0; +https://github.com/local/wc-meilisearch)"
STAR == "*"

VARIABLES
    pc,                 \* where main is
    rp,                 \* the RobotFileParser built at startup
    pages_to_visit,     \* discover_product_urls: FIFO of pending listing URLs
    visited_cat_pages,  \* discover_product_urls: listing URLs already popped and fetched
    page_count,         \* discover_product_urls: listing pages visited
    product_urls,       \* discover_product_urls: product URLs found
    page_url,           \* the URL of the page being processed
    soup,               \* the page get_page returned for page_url (None: fetch failed)
    todo,               \* main, phase 2: sorted product URLs still to scrape
    products,           \* main, phase 2: records collected so far
    output,             \* the content of products.json (Unwritten before the write)
    gets,               \* the network: page GETs issued so far, per URL
    consulted,          \* URLs for which rp.can_fetch was called and answered true
    served,             \* the network: what the site served for each product URL
    last,               \* the network: the last event, a request or a pause
    requests,           \* the network: HTTP requests issued so far
    robots_status,      \* the network: how the robots.txt request ended
    pops,               \* discover_product_urls: URLs popped from the queue so far
    a_soup,             \* extract_attributes: the page given to both extractors
    a_scraper,          \* the result of scraper.extract_attributes, <<>> before the call
    a_enricher,         \* the result of the enricher's extraction, <<>> before the call
    e_pc,               \* enricher main: where it is
    e_input,            \* enricher main: the array read from products.json
    e_products,         \* enricher main: the array being enriched
    e_i,                \* enricher main: the index of the record at hand
    e_attrs,            \* enricher main: what fetch_attributes returned for it
    enriched,           \* enricher main: records given a non-empty mapping
    skipped,            \* enricher main: records without a URL
    overwritten,        \* enricher main: records whose attributes were assigned
    e_output,           \* enricher main: the content of products.json after the run
    p_text,             \* parse_price: the text given, a sequence of characters
    p_result,           \* parse_price: <<>> before the call, <<value>> after it
    pp_soup,            \* parse_product_page: the page given
    pp_result           \* parse_product_page: <<>> before the call, <<result>> after it

vars == <<pc, rp, pages_to_visit, visited_cat_pages, page_count, product_urls,
          page_url, soup, todo, products, output, gets, consulted, served,
          last, requests, robots_status, pops, a_soup, a_scraper, a_enricher,
          e_pc, e_input, e_products, e_i, e_attrs, enriched, skipped, overwritten,
          e_output, p_text, p_result, pp_soup, pp_result>>

mainVars == <<pc, rp, pages_to_visit, visited_cat_pages, page_count, product_urls,
              page_url, soup, todo, products, output, served, robots_status, pops>>
netVars == <<gets, consulted, last, requests>>
attrVars == <<a_soup, a_scraper, a_enricher>>
enrichVars == <<e_pc, e_input, e_products, e_i, e_attrs, enriched, skipped,
                overwritten, e_output>>

None == [kind |-> "None"]
Unwritten == [written |-> FALSE, data |-> <<>>]
Written(data) == [written |-> TRUE, data |-> data]

\* ------------------------------------------------ urllib.robotparser state

\* RobotFileParser(): no entries, nothing read yet.
NewRobotParser ==
    [disallow_all |-> FALSE, allow_all |-> FALSE, last_checked |-> FALSE,
     entries |-> <<>>, default_entry |-> <<>>]

\* rp.parse(lines): marks the policy as read (modified()) and stores the rule
\* groups. A group is modelled by the set of URLs it disallows; `entries` holds the
\* group naming this crawler's agent (if any), `default_entry` the "*" group.
RobotParse(r, policy) ==
    [r EXCEPT !.last_checked = TRUE,
              !.entries = policy.entries,
              !.default_entry = policy.default_entry]

\* rp.can_fetch(useragent, url) of urllib.robotparser: disallow_all and allow_all
\* decide first; a parser whose policy was never read (parse not called) answers
\* False for every URL; else the group of the agent decides, else the "*" group,
\* else the URL is allowed.
can_fetch(r, useragent, url) ==
    IF r.disallow_all THEN FALSE
    ELSE IF r.allow_all THEN TRUE
    ELSE IF ~r.last_checked THEN FALSE
    ELSE IF useragent = UA /\ r.entries # <<>> THEN url \notin r.entries[1]
    ELSE IF r.default_entry # <<>> THEN url \notin r.default_entry[1]
    ELSE TRUE

\* The policies a 200 answer may carry.
Policies ==
    { [entries |-> <<>>, default_entry |-> <<>>],
      [entries |-> <<>>, default_entry |-> <<{"/shop/", "/productos/"}>>],
      [entries |-> <<>>, default_entry |-> <<{"/categoria/vinos/page/2/", "/producto/b/"}>>],
      [entries |-> <<>>, default_entry |-> <<AllUrls>>],
      [entries |-> <<{}>>, default_entry |-> <<{"/shop/", "/productos/", ROOT}>>],
      [entries |-> <<{}>>, default_entry |-> <<AllUrls>>] }

\* What the robots.txt request may give: a status code, or a network error.
RobotsOutcomes == {"200", "401", "403", "404", "500", "error"}

\* build_robot_parser: the parser after the robots.txt request ended in `outcome`.
build_robot_parser(outcome, policy) ==
    IF outcome = "200" THEN RobotParse(NewRobotParser, policy)
    ELSE IF outcome \in {"401", "403"} THEN [NewRobotParser EXCEPT !.disallow_all = TRUE]
    ELSE NewRobotParser

\* ---------------------------------------------------------------- the pages

\* A listing page as get_page parsed it: its anchors (a[href]), its "next page"
\* anchors and its category anchors, each in document order.
AnchorSets ==
    { {"/producto/a/", OffSite},
      {"/producto/b/", "/producto/c/", NoSlug},
      {"/producto/a/", "/producto/c/", "/blog/post/"} }
NextLinks == { <<>>, <<"/categoria/vinos/page/2/">> }
CategoryLinks ==
    { <<>>,
      <<"/categoria/vinos/", "/categoria/vinos/">>,
      <<"/tienda/", "/categoria/vinos/">>,
      <<"/categoria/vinos/page/2/", "/shop/">> }
ListingSoups ==
    [kind : {"listing"}, anchors : AnchorSets, next : NextLinks, cats : CategoryLinks]

\* A product page as get_page parsed it: the text of the name element ("" when no
\* selector matches or the text is empty), the readings extract_price gives for the
\* selectors of the sale, struck-through and current price zones (0: the selector
\* matches nothing or parse_price gives 0.0), whether extraction raises, the
\* attribute list (dl) and the JSON-LD script blocks (ld).
ProductSoup(title, raises, ins, del, cur, dl, ld) ==
    [kind |-> "product", title |-> title, raises |-> raises,
     ins |-> ins, del |-> del, cur |-> cur, dl |-> dl, ld |-> ld,
     stock |-> <<>>, cart |-> TRUE]

\* The same page with its stock zone: the text of the .stock element (<<>> when
\* the page has none, <<text>> else) and whether it has an add-to-cart button.
\* ProductSoup builds a page with no stock label and with the button.
WithStock(s, stock, cart) == [s EXCEPT !.stock = stock, !.cart = cart]

\* ----------------------------------------------------- extract_attributes

\* ATTR_LABEL_MAP / LABEL_MAP: the slug of a recognised label (<<>>: not recognised).
ATTR_LABEL_MAP(label) ==
    CASE label = "marca" -> <<"marca">>
      [] label = "pais" -> <<"pais">>
      [] label = "país" -> <<"pais">>
      [] label = "region" -> <<"region">>
      [] label = "región" -> <<"region">>
      [] label = "tipo" -> <<"tipo">>
      [] label = "varietal" -> <<"varietal">>
      [] label = "volumen" -> <<"volumen">>
      [] OTHER -> <<>>

\* _norm / normalise: lower-case, strip, drop the diacritics (on the labels used).
Norm(text) ==
    CASE text = "Marca" -> "marca"
      [] text = "País" -> "pais"
      [] text = "país" -> "pais"
      [] text = "Región" -> "region"
      [] text = " Tipo " -> "tipo"
      [] text = "Varietal" -> "varietal"
      [] text = "Color" -> "color"
      [] OTHER -> text

\* name.replace("pa_", "") (on the property names used).
StripPa(name) ==
    CASE name = "pa_marca" -> "marca"
      [] name = "pa_País" -> "País"
      [] name = "pa_region" -> "region"
      [] name = "pa_Varietal" -> "Varietal"
      [] name = "pa_volumen" -> "volumen"
      [] name = "pa_color" -> "color"
      [] OTHER -> name

\* re.sub(r"\s+", " ", dd.get_text(" ", strip=True)).strip() (on the texts used).
CollapseSpace(text) ==
    CASE text = "Casa  Silva" -> "Casa Silva"
      [] text = " Chile " -> "Chile"
      [] text = "  " -> ""
      [] OTHER -> text

\* str(value).strip() (on the values used).
StripValue(value) ==
    CASE value = " Malbec " -> "Malbec"
      [] value = "  " -> ""
      [] OTHER -> value

\* A dict of attributes: a function from some slugs to texts.
EmptyAttrs == [k \in {} |-> ""]
Put(attrs, k, v) == [x \in (DOMAIN attrs) \cup {k} |-> IF x = k THEN v ELSE attrs[x]]
Truthy(attrs) == DOMAIN attrs # {}

Min(a, b) == IF a <= b THEN a ELSE b

\* Strategy 1: the dt/dd pairs of the attribute list, zipped; <<>> as dl when the
\* page has no list.
RECURSIVE Strategy1Pairs(_, _, _, _)
Strategy1Pairs(dts, dds, i, attrs) ==
    IF i > Min(Len(dts), Len(dds)) THEN attrs
    ELSE LET slug  == ATTR_LABEL_MAP(Norm(dts[i]))
             value == CollapseSpace(dds[i])
         IN  IF slug # <<>> /\ value # ""
               THEN Strategy1Pairs(dts, dds, i + 1, Put(attrs, slug[1], value))
               ELSE Strategy1Pairs(dts, dds, i + 1, attrs)

Strategy1(s) ==
    IF s.dl = <<>> THEN EmptyAttrs
    ELSE Strategy1Pairs(s.dl[1].dts, s.dl[1].dds, 1, EmptyAttrs)

\* A JSON-LD script block: malformed text, a dict, or a list of dicts. A dict has
\* its @type and its additionalProperty list; a property is a dict with a name and
\* a value, or something that is no dict (prop.get raises).
Prop(name, value) == [bad |-> FALSE, name |-> name, value |-> value]
BadProp == [bad |-> TRUE, name |-> "", value |-> ""]
LdDict(type, props) == [type |-> type, props |-> props]
Malformed == [kind |-> "malformed", items |-> <<>>]
DictBlock(d) == [kind |-> "dict", items |-> <<d>>]
ListBlock(ds) == [kind |-> "list", items |-> ds]

\* next((d for d in data if ... d.get("@type") == "Product"), {})
RECURSIVE FirstProduct(_)
FirstProduct(ds) ==
    IF ds = <<>> THEN <<>>
    ELSE IF Head(ds).type = "Product" THEN <<Head(ds)>>
    ELSE FirstProduct(Tail(ds))

\* The loop over data["additionalProperty"]: the attributes collected, and whether
\* a property raised (the loop stops there, keeping what it collected).
RECURSIVE ReadProps(_, _)
ReadProps(props, attrs) ==
    IF props = <<>> THEN [attrs |-> attrs, raised |-> FALSE]
    ELSE IF Head(props).bad THEN [attrs |-> attrs, raised |-> TRUE]
    ELSE LET name  == Head(props).name
             value == Head(props).value
             slug  == ATTR_LABEL_MAP(Norm(StripPa(name)))
         IN  IF name = "" \/ value = "" THEN ReadProps(Tail(props), attrs)
             ELSE IF slug # <<>>
               THEN ReadProps(Tail(props), Put(attrs, slug[1], StripValue(value)))
               ELSE ReadProps(Tail(props), attrs)

\* The body of the try of one script block: how it ends ("raised": json.loads or a
\* property raised; "continue": no Product; "read": the property list was read to
\* its end) and the attributes after it.
ReadBlock(block, attrs) ==
    IF block.kind = "malformed" THEN [end |-> "raised", attrs |-> attrs]
    ELSE LET data == IF block.kind = "list" THEN FirstProduct(block.items)
                     ELSE block.items
         IN  IF data = <<>> \/ data[1].type # "Product"
               THEN [end |-> "continue", attrs |-> attrs]
               ELSE LET r == ReadProps(data[1].props, attrs)
                    IN  [end |-> IF r.raised THEN "raised" ELSE "read", attrs |-> r.attrs]

\* Strategy 2 of scraper.extract_attributes: the first block read to its end with
\* attrs non-empty returns attrs; when the blocks run out the result is {}.
\* `read` counts the script blocks looked at.
RECURSIVE ScraperStrategy2(_, _, _)
ScraperStrategy2(blocks, attrs, read) ==
    IF blocks = <<>> THEN [attrs |-> EmptyAttrs, blocks_read |-> read]
    ELSE LET r == ReadBlock(Head(blocks), attrs)
         IN  IF r.end = "read" /\ Truthy(r.attrs)
               THEN [attrs |-> r.attrs, blocks_read |-> read + 1]
               ELSE ScraperStrategy2(Tail(blocks), r.attrs, read + 1)

\* Strategy 2 of enrich-attributes.fetch_attributes: the same loop with `break`;
\* when the blocks run out the result is attrs as collected.
RECURSIVE EnricherStrategy2(_, _, _)
EnricherStrategy2(blocks, attrs, read) ==
    IF blocks = <<>> THEN [attrs |-> attrs, blocks_read |-> read]
    ELSE LET r == ReadBlock(Head(blocks), attrs)
         IN  IF r.end = "read" /\ Truthy(r.attrs)
               THEN [attrs |-> r.attrs, blocks_read |-> read + 1]
               ELSE EnricherStrategy2(Tail(blocks), r.attrs, read + 1)

\* `if attrs: return attrs` after Strategy 1 (the enricher: `if not attrs:` around
\* Strategy 2).
Strategy1NeverWins(attrs) == FALSE
Strategy1Wins(attrs) == Truthy(attrs)

\* scraper.extract_attributes(soup).
extract_attributes(s) ==
    IF Strategy1Wins(Strategy1(s))
      THEN [attrs |-> Strategy1(s), blocks_read |-> 0]
      ELSE ScraperStrategy2(s.ld, Strategy1(s), 0)

\* The extraction inside enrich-attributes.fetch_attributes, on a fetched page.
enricher_extract(s) ==
    IF Strategy1Wins(Strategy1(s))
      THEN [attrs |-> Strategy1(s), blocks_read |-> 0]
      ELSE EnricherStrategy2(s.ld, Strategy1(s), 0)

\* ------------------------------------------------------ parse_product_page

\* Python's `a or b or ...` over floats: the first non-zero reading, else the last.
RECURSIVE OrChain(_)
OrChain(readings) ==
    IF Len(readings) = 1 \/ Head(readings) # 0 THEN Head(readings)
    ELSE OrChain(Tail(readings))

\* Optional[float]: <<>> is None, <<v>> is the value v.
Some(v) == <<v>>
Absent == <<>>

sale_price_raw(s) == OrChain(s.ins)
regular_price_raw(s) == OrChain(s.del)
current_price_raw(s) == OrChain(s.cur)
current_price(s) == IF sale_price_raw(s) # 0 THEN sale_price_raw(s) ELSE current_price_raw(s)
regular_price(s) == IF regular_price_raw(s) # 0 THEN regular_price_raw(s) ELSE current_price(s)
sale_price(s) == IF regular_price_raw(s) # 0 THEN Some(sale_price_raw(s)) ELSE Absent

\* parse_product_page(soup, url): the record, or None when the page has no name or
\* extraction raises.
AnyName(s) == TRUE
HasName(s) == s.title # ""

\* stock_el.get_text(strip=True).lower() (on the labels used).
StockLower(text) ==
    CASE text = "Disponible" -> "disponible"
      [] text = "2 Disponibles" -> "2 disponibles"
      [] text = "In Stock" -> "in stock"
      [] text = "Agotado" -> "agotado"
      [] text = "Hay existencias" -> "hay existencias"
      [] OTHER -> text

\* `token in stock_text` (on the lower-cased labels used).
ContainsToken(text, token) ==
    <<text, token>> \in { <<"disponible", "disponible">>,
                          <<"2 disponibles", "disponible">>,
                          <<"in stock", "in stock">> }

\* The stock block of parse_product_page: a stock label decides alone; only a page
\* without one is classified by its add-to-cart button.
StockFallThrough(s) ==
    IF s.stock # <<>> /\ (ContainsToken(StockLower(s.stock[1]), "disponible")
                           \/ ContainsToken(StockLower(s.stock[1]), "in stock"))
      THEN "instock"
    ELSE IF s.cart THEN "instock"
    ELSE "outofstock"
stock_status(s) ==
    IF s.stock # <<>>
      THEN IF ContainsToken(StockLower(s.stock[1]), "disponible")
                \/ ContainsToken(StockLower(s.stock[1]), "in stock")
             THEN "instock" ELSE "outofstock"
    ELSE IF s.cart THEN "instock"
    ELSE "outofstock"

parse_product_page(s, url) ==
    IF ~HasName(s) THEN None
    ELSE IF s.raises THEN None
    ELSE [kind |-> "record", name |-> s.title, url |-> url,
          price |-> current_price(s), regular_price |-> regular_price(s),
          sale_price |-> sale_price(s),
          stock_status |-> stock_status(s),
          attributes |-> extract_attributes(s).attrs]

\* The attribute lists and JSON-LD blocks of the pages considered.
NoDl == <<>>
DlBoth == <<[dts |-> <<"Marca", "País">>, dds |-> <<"Casa  Silva", " Chile ">>]>>
DlNothing == <<[dts |-> <<"Color", " Tipo ">>, dds |-> <<"Rojo", "  ">>]>>
DlShort == <<[dts |-> <<"Región", "Marca">>, dds |-> <<"Maule">>]>>
DlChoices == {NoDl, DlBoth, DlNothing, DlShort}

LdOther == DictBlock(LdDict("WebPage", <<>>))
LdProduct ==
    DictBlock(LdDict("Product", <<Prop("pa_marca", "Tarapaca"), Prop("pa_Varietal", " Malbec ")>>))
LdRaises == DictBlock(LdDict("Product", <<Prop("pa_volumen", "750 ml"), BadProp>>))
LdNothing ==
    DictBlock(LdDict("Product", <<Prop("pa_color", "Tinto"), Prop("pa_region", "")>>))
LdList ==
    ListBlock(<<LdDict("WebPage", <<>>), LdDict("Product", <<Prop("pa_País", "Argentina")>>)>>)
LdBlocks == {Malformed, LdOther, LdProduct, LdRaises, LdNothing, LdList}

\* The product pages the site serves in a run of main.
SiteProductSoups ==
    { ProductSoup("Malbec Reserva", FALSE, <<0, 80>>, <<100, 100>>, <<0, 80, 80>>, NoDl, <<LdList>>),
      ProductSoup("", FALSE, <<0, 0>>, <<0, 0>>, <<45, 45, 45>>, DlBoth, <<>>),
      ProductSoup("Malbec Reserva", TRUE, <<0, 0>>, <<0, 0>>, <<45, 45, 45>>, NoDl, <<>>) }

\* ------------------------------------------------------------- the network

\* An HTTP request is issued: one more request, and it is the last event.
Request == /\ requests' = requests + 1
           /\ last' = "request"

\* time.sleep(DELAY).
Sleep == /\ last' = "pause"
         /\ UNCHANGED requests

\* session.get(url) of get_page: one more GET of url.
Get(url) == /\ gets' = [gets EXCEPT ![url] = @ + 1]
            /\ Request

\* -------------------------------------------------- discover_product_urls

\* re.search(r"/(producto|product)/[^/]+/?$", path) on an anchor of the site's host.
IsProductUrl(u) == u \in ProductUrls

RECURSIVE SelectSeq2(_, _)
SelectSeq2(seq, keep) ==
    IF seq = <<>> THEN <<>>
    ELSE IF Head(seq) \in keep THEN <<Head(seq)>> \o SelectSeq2(Tail(seq), keep)
    ELSE SelectSeq2(Tail(seq), keep)

Range(seq) == {seq[i] : i \in 1..Len(seq)}

\* The entry points the robots policy allows, in order.
SeedQueue(r) == SelectSeq2(EntryPoints, {ep \in Range(EntryPoints) : can_fetch(r, STAR, ep)})

\* The targets of `links` that are enqueued: not visited and allowed.
Enqueued(r, links, visited) ==
    SelectSeq2(links, {u \in Range(links) : u \notin visited /\ can_fetch(r, STAR, u)})

\* The loop condition of discover_product_urls.
LoopCondNoBudget(queue, count) == queue # <<>>
LoopCond(queue, count) == queue # <<>> /\ count < MAX_PAGES

\* `if page_url in visited_cat_pages: continue`
NeverVisited(u, visited) == FALSE
AlreadyVisited(u, visited) == u \in visited

\* sorted(product_urls): ascending by string order.
Rank(u) == CHOOSE i \in 1..Len(ProductOrder) : ProductOrder[i] = u
RECURSIVE sorted(_)
sorted(S) ==
    IF S = {} THEN <<>>
    ELSE LET m == CHOOSE x \in S : \A y \in S : Rank(x) <= Rank(y)
         IN  <<m>> \o sorted(S \ {m})

\* The variables of the other entry points and functions, while they do not run.
AttrIdle == a_soup = [dl |-> NoDl, ld |-> <<>>] /\ a_scraper = <<>> /\ a_enricher = <<>>

EnrichIdle ==
    /\ e_pc = "idle"
    /\ e_input = <<>>
    /\ e_products = <<>>
    /\ e_i = 0
    /\ e_attrs = EmptyAttrs
    /\ enriched = 0
    /\ skipped = 0
    /\ overwritten = 0
    /\ e_output = Unwritten

PureIdle ==
    /\ p_text = <<>>
    /\ p_result = <<>>
    /\ pp_soup = None
    /\ pp_result = <<>>

pureVars == <<p_text, p_result, pp_soup, pp_result>>
notMain == <<attrVars, enrichVars, pureVars>>

\* ------------------------------------------------------------ scraper.main

Init ==
    /\ pc = "start"
    /\ rp = NewRobotParser
    /\ pages_to_visit = <<>>
    /\ visited_cat_pages = {}
    /\ page_count = 0
    /\ product_urls = {}
    /\ page_url = ""
    /\ soup = None
    /\ todo = <<>>
    /\ products = <<>>
    /\ output = Unwritten
    /\ gets = [u \in ListingUrls \cup ProductUrls |-> 0]
    /\ consulted = {}
    /\ served = [u \in ProductUrls |-> None]
    /\ last = "start"
    /\ requests = 0
    /\ robots_status = "unsent"
    /\ pops = 0
    /\ AttrIdle
    /\ EnrichIdle
    /\ PureIdle

\* rp = build_robot_parser(): the robots.txt request and what it makes of the answer.
BuildRobotParser ==
    /\ pc = "start"
    /\ \E outcome \in RobotsOutcomes, policy \in Policies :
          /\ rp' = build_robot_parser(outcome, policy)
          /\ robots_status' = outcome
    /\ Request
    /\ pc' = "robots"
    /\ UNCHANGED <<pages_to_visit, visited_cat_pages, page_count, product_urls,
                   page_url, soup, todo, products, output, gets, consulted, served, pops>>
    /\ UNCHANGED notMain

\* main aborts when the root is disallowed for the crawler's agent and for "*".
RootDisallowed(r) == ~can_fetch(r, UA, ROOT) /\ ~can_fetch(r, STAR, ROOT)

Abort ==
    /\ pc = "robots"
    /\ RootDisallowed(rp)
    /\ pc' = "aborted"
    /\ UNCHANGED <<rp, pages_to_visit, visited_cat_pages, page_count, product_urls,
                   page_url, soup, todo, products, output, gets, consulted, served,
                   last, requests, robots_status, pops>>
    /\ UNCHANGED notMain

\* discover_product_urls starts: the queue is seeded with the allowed entry points.
StartDiscovery ==
    /\ pc = "robots"
    /\ ~RootDisallowed(rp)
    /\ pages_to_visit' = SeedQueue(rp)
    /\ consulted' = consulted \cup Range(SeedQueue(rp))
    /\ visited_cat_pages' = {}
    /\ page_count' = 0
    /\ product_urls' = {}
    /\ pc' = "discover"
    /\ UNCHANGED <<rp, page_url, soup, todo, products, output, gets, served,
                   last, requests, robots_status, pops>>
    /\ UNCHANGED notMain

\* One pass of the loop that pops a URL already visited: `continue`.
DiscoverSkip ==
    /\ pc = "discover"
    /\ LoopCond(pages_to_visit, page_count)
    /\ AlreadyVisited(Head(pages_to_visit), visited_cat_pages)
    /\ pages_to_visit' = Tail(pages_to_visit)
    /\ pops' = pops + 1
    /\ UNCHANGED <<pc, rp, visited_cat_pages, page_count, product_urls, page_url,
                   soup, todo, products, output, gets, consulted, served,
                   last, requests, robots_status>>
    /\ UNCHANGED notMain

\* One pass of the loop up to get_page: pop, mark visited, count, fetch.
DiscoverFetch ==
    /\ pc = "discover"
    /\ LoopCond(pages_to_visit, page_count)
    /\ ~AlreadyVisited(Head(pages_to_visit), visited_cat_pages)
    /\ page_url' = Head(pages_to_visit)
    /\ pages_to_visit' = Tail(pages_to_visit)
    /\ visited_cat_pages' = visited_cat_pages \cup {Head(pages_to_visit)}
    /\ page_count' = page_count + 1
    /\ pops' = pops + 1
    /\ Get(Head(pages_to_visit))
    /\ soup' \in {None} \cup ListingSoups
    /\ pc' = "listing"
    /\ UNCHANGED <<rp, product_urls, todo, products, output, consulted, served, robots_status>>
    /\ UNCHANGED notMain

\* The rest of the pass: on a failed fetch sleep and continue; else collect the
\* product links, enqueue the pagination and category links, sleep.
DiscoverProcess ==
    /\ pc = "listing"
    /\ IF soup = None
         THEN UNCHANGED <<product_urls, pages_to_visit, consulted>>
         ELSE LET nexts == Enqueued(rp, soup.next, visited_cat_pages)
                  cats  == Enqueued(rp, soup.cats, visited_cat_pages)
              IN  /\ product_urls' = product_urls \cup {a \in soup.anchors : IsProductUrl(a)}
                  /\ pages_to_visit' = pages_to_visit \o nexts \o cats
                  /\ consulted' = consulted \cup Range(nexts) \cup Range(cats)
    /\ Sleep
    /\ pc' = "discover"
    /\ UNCHANGED <<rp, visited_cat_pages, page_count, page_url, soup, todo,
                   products, output, gets, served, robots_status, pops>>
    /\ UNCHANGED notMain

\* discover_product_urls returns; with no product URL main writes [] and returns.
DiscoverReturn ==
    /\ pc = "discover"
    /\ ~LoopCond(pages_to_visit, page_count)
    /\ IF product_urls = {}
         THEN /\ output' = Written(<<>>)
              /\ pc' = "done"
              /\ UNCHANGED todo
         ELSE /\ todo' = sorted(product_urls)
              /\ pc' = "phase2"
              /\ UNCHANGED output
    /\ products' = <<>>
    /\ UNCHANGED <<rp, pages_to_visit, visited_cat_pages, page_count, product_urls,
                   page_url, soup, gets, consulted, served, last, requests, robots_status, pops>>
    /\ UNCHANGED notMain

\* Phase 2, a URL the robots policy disallows: `continue`.
ProductSkip ==
    /\ pc = "phase2"
    /\ todo # <<>>
    /\ ~can_fetch(rp, STAR, Head(todo))
    /\ todo' = Tail(todo)
    /\ UNCHANGED <<pc, rp, pages_to_visit, visited_cat_pages, page_count,
                   product_urls, page_url, soup, products, output, gets,
                   consulted, served, last, requests, robots_status, pops>>
    /\ UNCHANGED notMain

\* Phase 2, an allowed URL: get_page.
ProductFetch ==
    /\ pc = "phase2"
    /\ todo # <<>>
    /\ can_fetch(rp, STAR, Head(todo))
    /\ consulted' = consulted \cup {Head(todo)}
    /\ page_url' = Head(todo)
    /\ todo' = Tail(todo)
    /\ Get(Head(todo))
    /\ soup' \in {None} \cup SiteProductSoups
    /\ served' = [served EXCEPT ![Head(todo)] = soup']
    /\ pc' = "product"
    /\ UNCHANGED <<rp, pages_to_visit, visited_cat_pages, page_count,
                   product_urls, products, output, robots_status, pops>>
    /\ UNCHANGED notMain

\* Phase 2, after get_page: parse the page, keep the record if there is one, sleep.
ProductParse ==
    /\ pc = "product"
    /\ IF soup # None /\ parse_product_page(soup, page_url) # None
         THEN products' = Append(products, parse_product_page(soup, page_url))
         ELSE UNCHANGED products
    /\ Sleep
    /\ pc' = "phase2"
    /\ UNCHANGED <<rp, pages_to_visit, visited_cat_pages, page_count,
                   product_urls, page_url, soup, todo, output, gets, consulted,
                   served, robots_status, pops>>
    /\ UNCHANGED notMain

\* Phase 3: json.dump(products) to products.json.
WriteOutput ==
    /\ pc = "phase2"
    /\ todo = <<>>
    /\ output' = Written(products)
    /\ pc' = "done"
    /\ UNCHANGED <<rp, pages_to_visit, visited_cat_pages, page_count,
                   product_urls, page_url, soup, todo, products, gets, consulted,
                   served, last, requests, robots_status, pops>>
    /\ UNCHANGED notMain

Next ==
    \/ BuildRobotParser
    \/ Abort
    \/ StartDiscovery
    \/ DiscoverSkip
    \/ DiscoverFetch
    \/ DiscoverProcess
    \/ DiscoverReturn
    \/ ProductSkip
    \/ ProductFetch
    \/ ProductParse
    \/ WriteOutput

Spec == Init /\ [][Next]_vars

\* main is one sequential control flow: whenever it has a next step it takes it.
FairSpec == Spec /\ WF_vars(Next)

\* ------------------------------------- the two attribute extractors alone

MaxBlocks == 2

RECURSIVE SeqsUpTo(_, _)
SeqsUpTo(S, n) ==
    IF n = 0 THEN {<<>>}
    ELSE LET shorter == SeqsUpTo(S, n - 1)
         IN  shorter \cup {Append(q, x) : q \in shorter, x \in S}

AttrSoups == [dl : DlChoices, ld : SeqsUpTo(LdBlocks, MaxBlocks)]

MainIdle ==
    /\ pc = "idle"
    /\ rp = NewRobotParser
    /\ pages_to_visit = <<>>
    /\ visited_cat_pages = {}
    /\ page_count = 0
    /\ product_urls = {}
    /\ page_url = ""
    /\ soup = None
    /\ todo = <<>>
    /\ products = <<>>
    /\ output = Unwritten
    /\ served = [u \in ProductUrls |-> None]
    /\ robots_status = "unsent"
    /\ pops = 0

NetIdle ==
    /\ gets = [u \in ListingUrls \cup ProductUrls |-> 0]
    /\ consulted = {}
    /\ last = "start"
    /\ requests = 0

InitAttributes ==
    /\ MainIdle
    /\ NetIdle
    /\ EnrichIdle
    /\ PureIdle
    /\ a_soup \in AttrSoups
    /\ a_scraper = <<>>
    /\ a_enricher = <<>>

\* scraper.extract_attributes(soup) is called on the page.
ExtractAttributes ==
    /\ a_scraper = <<>>
    /\ a_scraper' = <<extract_attributes(a_soup)>>
    /\ UNCHANGED <<a_soup, a_enricher, mainVars, netVars, enrichVars, pureVars>>

\* The extraction of enrich-attributes.fetch_attributes runs on the page.
EnricherExtract ==
    /\ a_enricher = <<>>
    /\ a_enricher' = <<enricher_extract(a_soup)>>
    /\ UNCHANGED <<a_soup, a_scraper, mainVars, netVars, enrichVars, pureVars>>

NextAttributes == ExtractAttributes \/ EnricherExtract

SpecAttributes == InitAttributes /\ [][NextAttributes]_vars

\* ------------------------------------------------- enrich-attributes.main

MaxRecords == 3

\* The records products.json may hold: with a URL, with an empty URL, without the
\* url key, without the attributes key.
OldAttrs == [marca |-> "Vieja"]
InputRecords ==
    { [name |-> "A", url |-> "/producto/a/", attributes |-> OldAttrs],
      [name |-> "B", url |-> "", attributes |-> OldAttrs],
      [name |-> "C", attributes |-> OldAttrs],
      [name |-> "D", url |-> "/producto/b/"] }

\* The pages the site serves to the enricher.
EnrichSoups ==
    { [dl |-> DlBoth, ld |-> <<LdProduct>>],
      [dl |-> NoDl, ld |-> <<LdRaises>>],
      [dl |-> NoDl, ld |-> <<LdOther>>] }

\* product.get("url", "")
GetUrl(product) == IF "url" \in DOMAIN product THEN product.url ELSE ""

\* `if not url:` the record is skipped.
IsSkipped(product) == GetUrl(product) = ""

\* product["attributes"] = attrs
ReplaceRecord(product, attrs) == [attributes |-> attrs]
StoreAttributes(product, attrs) ==
    [k \in (DOMAIN product) \cup {"attributes"} |->
        IF k = "attributes" THEN attrs ELSE product[k]]

\* fetch_attributes(session, url) once the GET has answered: {} when the request
\* failed, else what the extraction gives.
fetch_attributes(page) ==
    IF page = None THEN EmptyAttrs ELSE enricher_extract(page).attrs

InitEnrich ==
    /\ MainIdle
    /\ NetIdle
    /\ AttrIdle
    /\ PureIdle
    /\ e_pc = "start"
    /\ e_input \in SeqsUpTo(InputRecords, MaxRecords)
    /\ e_products = <<>>
    /\ e_i = 0
    /\ e_attrs = EmptyAttrs
    /\ enriched = 0
    /\ skipped = 0
    /\ overwritten = 0
    /\ e_output = Unwritten

\* products.json does not exist: main reports it and returns.
EnrichNoInput ==
    /\ e_pc = "start"
    /\ e_pc' = "noinput"
    /\ UNCHANGED <<e_input, e_products, e_i, e_attrs, enriched, skipped,
                   overwritten, e_output, mainVars, netVars, attrVars, pureVars>>

\* products = json.load(f); the loop starts at the first record.
EnrichLoad ==
    /\ e_pc = "start"
    /\ e_products' = e_input
    /\ e_i' = 1
    /\ enriched' = 0
    /\ skipped' = 0
    /\ e_pc' = "loop"
    /\ UNCHANGED <<e_input, e_attrs, overwritten, e_output, mainVars, netVars,
                   attrVars, pureVars>>

\* A record without a URL: counted as skipped, `continue`.
EnrichSkip ==
    /\ e_pc = "loop"
    /\ e_i <= Len(e_products)
    /\ IsSkipped(e_products[e_i])
    /\ skipped' = skipped + 1
    /\ e_i' = e_i + 1
    /\ UNCHANGED <<e_pc, e_input, e_products, e_attrs, enriched, overwritten,
                   e_output, mainVars, netVars, attrVars, pureVars>>

\* A record with a URL: fetch_attributes issues the GET and extracts.
EnrichFetch ==
    /\ e_pc = "loop"
    /\ e_i <= Len(e_products)
    /\ ~IsSkipped(e_products[e_i])
    /\ Get(GetUrl(e_products[e_i]))
    /\ \E page \in {None} \cup EnrichSoups : e_attrs' = fetch_attributes(page)
    /\ e_pc' = "fetched"
    /\ UNCHANGED <<e_input, e_products, e_i, enriched, skipped, overwritten,
                   e_output, mainVars, consulted, attrVars, pureVars>>

\* The rest of the pass: assign the attributes, count, sleep.
EnrichStore ==
    /\ e_pc = "fetched"
    /\ e_products' = [e_products EXCEPT ![e_i] = StoreAttributes(@, e_attrs)]
    /\ overwritten' = overwritten + 1
    /\ enriched' = IF Truthy(e_attrs) THEN enriched + 1 ELSE enriched
    /\ Sleep
    /\ e_i' = e_i + 1
    /\ e_pc' = "loop"
    /\ UNCHANGED <<e_input, e_attrs, skipped, e_output, mainVars, gets,
                   consulted, attrVars, pureVars>>

\* After the loop: json.dump(products) over the input file.
EnrichWrite ==
    /\ e_pc = "loop"
    /\ e_i > Len(e_products)
    /\ e_output' = Written(e_products)
    /\ e_pc' = "done"
    /\ UNCHANGED <<e_input, e_products, e_i, e_attrs, enriched, skipped,
                   overwritten, mainVars, netVars, attrVars, pureVars>>

NextEnrich ==
    \/ EnrichNoInput
    \/ EnrichLoad
    \/ EnrichSkip
    \/ EnrichFetch
    \/ EnrichStore
    \/ EnrichWrite

SpecEnrich == InitEnrich /\ [][NextEnrich]_vars

\* ------------------------------------------------------------- parse_price

\* The longest text given to parse_price.
MaxLen == 4

\* The characters of the texts: digits, the two separators, a currency letter.
Digits == {"0", "1", "5"}
Chars == Digits \cup {",", ".", "S"}

DigitValue(c) == CASE c = "0" -> 0 [] c = "1" -> 1 [] c = "5" -> 5

RECURSIVE Pow10(_)
Pow10(n) == IF n = 0 THEN 1 ELSE 10 * Pow10(n - 1)

\* Prices are kept exactly, as multiples of 10^-Scale.
Scale == MaxLen + 1

\* re.sub(r"[^\d,\.]", "", text)
RECURSIVE KeepPriceChars(_)
KeepPriceChars(t) ==
    IF t = <<>> THEN <<>>
    ELSE IF Head(t) \in Digits \cup {",", "."} THEN <<Head(t)>> \o KeepPriceChars(Tail(t))
    ELSE KeepPriceChars(Tail(t))

RECURSIVE LStrip(_, _)
LStrip(t, c) == IF t # <<>> /\ Head(t) = c THEN LStrip(Tail(t), c) ELSE t

RECURSIVE RStrip(_, _)
RStrip(t, c) ==
    IF t # <<>> /\ t[Len(t)] = c THEN RStrip(SubSeq(t, 1, Len(t) - 1), c) ELSE t

\* cleaned.strip("."): the periods at both ends go.
StripPeriods(t) == RStrip(LStrip(t, "."), ".")

Contains(t, c) == \E i \in 1..Len(t) : t[i] = c

\* cleaned.rfind(c), counted from 1 (0: not found).
RFind(t, c) ==
    IF Contains(t, c) THEN CHOOSE i \in 1..Len(t) : t[i] = c /\ \A j \in (i + 1)..Len(t) : t[j] # c
    ELSE 0

\* cleaned.replace(c, "") and cleaned.replace(c, d)
RECURSIVE Remove(_, _)
Remove(t, c) ==
    IF t = <<>> THEN <<>>
    ELSE IF Head(t) = c THEN Remove(Tail(t), c)
    ELSE <<Head(t)>> \o Remove(Tail(t), c)
Replace(t, c, d) == [i \in 1..Len(t) |-> IF t[i] = c THEN d ELSE t[i]]

\* The comma/period convention: the rightmost of the two is the decimal separator.
Separators(t) ==
    IF Contains(t, ",") /\ Contains(t, ".")
      THEN IF RFind(t, ".") > RFind(t, ",")
             THEN Remove(t, ",")
             ELSE Replace(Remove(t, "."), ",", ".")
    ELSE IF Contains(t, ",") THEN Replace(t, ",", ".")
    ELSE t

RECURSIVE IntValue(_)
IntValue(ds) ==
    IF ds = <<>> THEN 0 ELSE 10 * IntValue(SubSeq(ds, 1, Len(ds) - 1)) + DigitValue(ds[Len(ds)])

\* float(cleaned) inside the try: a text of digits with at most one period and at
\* least one digit is its decimal value; anything else raises ValueError -> 0.0.
ParseFloat(t) ==
    LET dots == {i \in 1..Len(t) : t[i] = "."}
        ok   == /\ \A i \in 1..Len(t) : t[i] \in Digits \cup {"."}
                /\ Cardinality(dots) <= 1
                /\ Len(t) > Cardinality(dots)
        dot  == IF dots = {} THEN Len(t) + 1 ELSE CHOOSE i \in dots : TRUE
        int  == SubSeq(t, 1, dot - 1)
        frac == SubSeq(t, dot + 1, Len(t))
    IN  IF ok THEN IntValue(int) * Pow10(Scale) + IntValue(frac) * Pow10(Scale - Len(frac))
        ELSE 0

\* parse_price(text), in units of 10^-Scale.
parse_price(text) ==
    IF text = <<>> THEN 0
    ELSE ParseFloat(Separators(StripPeriods(KeepPriceChars(text))))

InitPrice ==
    /\ MainIdle
    /\ NetIdle
    /\ AttrIdle
    /\ EnrichIdle
    /\ p_text \in SeqsUpTo(Chars, MaxLen)
    /\ p_result = <<>>
    /\ pp_soup = None
    /\ pp_result = <<>>

\* parse_price(text) is called.
ParsePrice ==
    /\ p_result = <<>>
    /\ p_result' = <<parse_price(p_text)>>
    /\ UNCHANGED <<p_text, pp_soup, pp_result, mainVars, netVars, attrVars, enrichVars>>

SpecPrice == InitPrice /\ [][ParsePrice]_vars

\* -------------------------------------------- parse_product_page on its own

\* The readings of the price zones and the pages built from them.
Readings == {0, 80, 100}
PricePages ==
    { ProductSoup(title, FALSE, <<i1, i2>>, <<d1, d2>>, cur, NoDl, <<>>) :
        title \in {"", "Malbec Reserva"}, i1 \in Readings, i2 \in Readings,
        d1 \in Readings, d2 \in Readings,
        cur \in {<<0, 0, 0>>, <<0, 100, 100>>, <<80, 80, 80>>} }

\* The stock labels and the pages built from them.
StockLabels == {"Disponible", "2 Disponibles", "In Stock", "Agotado", "Hay existencias", ""}
StockPages ==
    { WithStock(ProductSoup("Malbec Reserva", FALSE, <<0, 0>>, <<0, 0>>, <<80, 80, 80>>, NoDl, <<>>),
                stock, cart) :
        stock \in {<<>>} \cup {<<t>> : t \in StockLabels}, cart \in BOOLEAN }

InitProduct ==
    /\ MainIdle
    /\ NetIdle
    /\ AttrIdle
    /\ EnrichIdle
    /\ p_text = <<>>
    /\ p_result = <<>>
    /\ pp_soup \in PricePages \cup StockPages
    /\ pp_result = <<>>

\* parse_product_page(soup, url) is called.
ParseProductPage ==
    /\ pp_result = <<>>
    /\ pp_result' = <<parse_product_page(pp_soup, "/producto/a/")>>
    /\ UNCHANGED <<p_text, p_result, pp_soup, mainVars, netVars, attrVars, enrichVars>>

SpecProduct == InitProduct /\ [][ParseProductPage]_vars

\* =================================================================== claims

RECURSIVE Sum(_, _)
Sum(f, S) ==
    IF S = {} THEN 0
    ELSE LET x == CHOOSE x \in S : TRUE IN f[x] + Sum(f, S \ {x})

ListingGets == Sum(gets, ListingUrls)
AfterDiscovery == pc \in {"phase2", "product", "done"}

\* C1: when the robots.txt request ends in anything but 200, 401 or 403 (a 404, a
\* 500, a network error), the gate declares no restrictions: can_fetch answers true
\* for every URL and every agent, and main does not abort.
C1_PermissiveGate ==
    (pc # "start" /\ robots_status \notin {"200", "401", "403"})
        => /\ \A u \in AllUrls, agent \in {UA, STAR} : can_fetch(rp, agent, u)
           /\ pc # "aborted"

\* C3: discover_product_urls issues at most MAX_PAGES listing fetches (failed ones
\* count), returns only with the queue empty or MAX_PAGES pages visited, and always
\* returns.
C3_Budget ==
    /\ page_count <= MAX_PAGES
    /\ ListingGets <= MAX_PAGES
    /\ ListingGets = page_count
    /\ AfterDiscovery => (pages_to_visit = <<>> \/ page_count >= MAX_PAGES)
C3_Terminates == (pc = "discover") ~> AfterDiscovery
C3_DiscoveryTerminatesInBudget == []C3_Budget /\ C3_Terminates

\* C3 witness: discovery returned on the budget with URLs still pending.
C3_Witness ==
    /\ AfterDiscovery
    /\ page_count = MAX_PAGES
    /\ pages_to_visit # <<>>
    /\ ListingGets = MAX_PAGES

\* C4: the written array holds exactly one record for each discovered product URL
\* that is allowed, fetched, named and extracted without error, in ascending URL
\* order, and none for any other URL.
ExpectedUrls ==
    {u \in product_urls :
        /\ can_fetch(rp, STAR, u)
        /\ served[u] # None
        /\ served[u].title # ""
        /\ ~served[u].raises}
C4_RecordSet ==
    pc = "done" =>
        /\ output.written
        /\ {output.data[i].url : i \in 1..Len(output.data)} = ExpectedUrls
        /\ \A i, j \in 1..Len(output.data) :
              i < j => Rank(output.data[i].url) < Rank(output.data[j].url)

\* C4 witness: three product URLs discovered, one served without a name, two
\* records written.
C4_Witness ==
    /\ pc = "done"
    /\ product_urls = ProductUrls
    /\ Len(output.data) = 2
    /\ \E u \in product_urls : gets[u] = 1 /\ served[u] # None /\ served[u].title = ""

\* C9: every HTTP request is followed by a pause before the next request: no
\* request is issued while the last network event is a request.
C9_PauseBetweenRequests == [][requests' # requests => last # "request"]_vars

\* C10: no listing URL is fetched more than once, and popping a visited URL neither
\* fetches nor consumes budget: the pages counted are exactly the pages fetched.
C10_NoRefetch ==
    /\ \A u \in ListingUrls : gets[u] <= 1
    /\ visited_cat_pages = {u \in ListingUrls : gets[u] = 1}
    /\ page_count = ListingGets
    /\ page_count = Cardinality(visited_cat_pages)
    /\ page_count <= pops

\* C10 witness: a URL enqueued several times was popped again after its visit.
C10_Witness ==
    /\ pops > page_count
    /\ page_count < MAX_PAGES
    /\ AfterDiscovery

\* C6: whenever Strategy 1 yields an attribute, each extractor returns exactly the
\* Strategy 1 mapping and reads no JSON-LD block; a returned mapping never holds
\* values of the attribute list together with values of the JSON-LD blocks.
DlValues == {"Casa Silva", "Chile", "Maule"}
LdValues == {"Tarapaca", "Malbec", "750 ml", "Argentina", ""}
Values(attrs) == {attrs[k] : k \in DOMAIN attrs}
C6_Strategy1Precedence ==
    \A r \in Range(a_scraper) \cup Range(a_enricher) :
        /\ Truthy(Strategy1(a_soup)) =>
              /\ r.attrs = Strategy1(a_soup)
              /\ Values(r.attrs) \subseteq DlValues
              /\ r.blocks_read = 0
        /\ Values(r.attrs) \subseteq DlValues \/ Values(r.attrs) \subseteq LdValues

\* C6 witness: both extractors ran on a page whose attribute list and whose first
\* JSON-LD block both yield attributes, and not the same ones.
C6_Witness ==
    /\ a_scraper # <<>>
    /\ a_enricher # <<>>
    /\ a_soup.dl = DlBoth
    /\ a_soup.ld # <<>>
    /\ a_soup.ld[1] = LdProduct
    /\ a_scraper[1].attrs = a_enricher[1].attrs
    /\ DOMAIN a_scraper[1].attrs = {"marca", "pais"}

\* C2: no page GET is issued for a URL unless can_fetch was consulted for it
\* beforehand and answered true (listing pages, product pages, enrichment
\* re-fetches).
C2_GatedFetches == \A u \in DOMAIN gets : gets[u] > 0 => u \in consulted

\* C7: the enricher writes an array of the same length and order; every field but
\* `attributes` is unchanged; a record without a URL is unchanged and not fetched;
\* skipped plus overwritten records make the whole array.
WithUrl(records) == {i \in 1..Len(records) : GetUrl(records[i]) # ""}
Others(record) == (DOMAIN record) \ {"attributes"}
C7_EnricherFrame ==
    e_pc = "done" =>
        /\ e_output.written
        /\ Len(e_output.data) = Len(e_input)
        /\ \A i \in 1..Len(e_input) :
              /\ Others(e_output.data[i]) = Others(e_input[i])
              /\ \A k \in Others(e_input[i]) : e_output.data[i][k] = e_input[i][k]
              /\ GetUrl(e_input[i]) = "" => e_output.data[i] = e_input[i]
        /\ requests = Cardinality(WithUrl(e_input))
        /\ \A u \in DOMAIN gets :
              gets[u] = Cardinality({i \in WithUrl(e_input) : e_input[i].url = u})
        /\ skipped + overwritten = Len(e_input)
        /\ overwritten = Cardinality(WithUrl(e_input))

\* C7 witness: a run over three records, one with an empty URL, one without the
\* url key, one re-fetched and given other attributes.
C7_Witness ==
    /\ e_pc = "done"
    /\ Len(e_input) = 3
    /\ skipped = 2
    /\ overwritten = 1
    /\ \E i \in 1..3 : "attributes" \in DOMAIN e_input[i]
                       /\ e_output.data[i].attributes # e_input[i].attributes

\* C5: every record parse_product_page produces has sale_price absent or strictly
\* below regular_price; with equal sale and struck-through readings, or with no
\* sale reading, sale_price is absent.
C5_SalePriceInvariant ==
    \A r \in Range(pp_result) :
        r # None =>
            /\ r.sale_price = Absent \/ r.sale_price[1] < r.regular_price
            /\ (sale_price_raw(pp_soup) = regular_price_raw(pp_soup)
                    \/ sale_price_raw(pp_soup) = 0) => r.sale_price = Absent

\* C8: parse_price equals the specified algorithm on every text: keep digits,
\* commas and periods; strip the leading periods only; let the rightmost separator
\* decide; parse as a decimal, 0.0 when that fails; and it is never negative.
LeadingOnly(t) == LStrip(t, ".")
SpecifiedPrice(text) == ParseFloat(Separators(LeadingOnly(KeepPriceChars(text))))
C8_PriceParserAsSpecified ==
    \A v \in Range(p_result) : v = SpecifiedPrice(p_text) /\ v >= 0

\* C11: stock_status is instock when the stock label's lower-cased text contains
\* "disponible" or "in stock"; otherwise (no label, or a label with neither token)
\* it is instock when the page has an add-to-cart control; otherwise outofstock.
HasStockToken(s) ==
    /\ s.stock # <<>>
    /\ \/ ContainsToken(StockLower(s.stock[1]), "disponible")
       \/ ContainsToken(StockLower(s.stock[1]), "in stock")
C11_StockClassification ==
    \A r \in Range(pp_result) :
        r # None =>
            r.stock_status = IF HasStockToken(pp_soup) THEN "instock"
                             ELSE IF pp_soup.cart THEN "instock"
                             ELSE "outofstock"

\* C11 as amended: a page with a stock label is instock exactly when the label's
\* lower-cased text contains "disponible" or "in stock", whatever its add-to-cart
\* control; a page without a label is instock exactly when it has the control.
InStockLabels == {"Disponible", "2 Disponibles", "In Stock"}
C11_LabelDecidesAlone ==
    \A r \in Range(pp_result) :
        r # None =>
            /\ r.stock_status \in {"instock", "outofstock"}
            /\ pp_soup.stock # <<>> =>
                  (r.stock_status = "instock" <=> pp_soup.stock[1] \in InStockLabels)
            /\ pp_soup.stock = <<>> =>
                  (r.stock_status = "instock" <=> pp_soup.cart)

\* C11 witness: a page with a label holding neither token and with an add-to-cart
\* control was parsed, and is outofstock.
C11_Witness ==
    /\ pp_result # <<>>
    /\ pp_result[1] # None
    /\ pp_soup.stock = <<"Hay existencias">>
    /\ pp_soup.cart
    /\ pp_result[1].stock_status = "outofstock"

\* The mapping one structured-data block yields when read alone.
OwnProps(block) == ReadBlock(block, EmptyAttrs).attrs
FromOneSource(attrs, s) ==
    \/ attrs = EmptyAttrs
    \/ attrs = Strategy1(s)
    \/ \E i \in 1..Len(s.ld) : attrs = OwnProps(s.ld[i])

\* C12, first half: on every page the two extractors return the same mapping.
C12_SameMapping ==
    (a_scraper # <<>> /\ a_enricher # <<>>) => a_scraper[1].attrs = a_enricher[1].attrs

\* C12, second half: a returned mapping holds the properties of one source only
\* (the attribute list, or one structured-data block), never of two blocks.
C12_NeverMixesBlocks ==
    \A r \in Range(a_scraper) \cup Range(a_enricher) : FromOneSource(r.attrs, a_soup)

\* C12: scraper.extract_attributes and the extraction of fetch_attributes return
\* the same mapping on every page, pages whose blocks are malformed or raise part
\* way through their property list included, and neither ever returns a mapping
\* that mixes the properties of two structured-data blocks.
C12_ExtractorsEquivalent == C12_SameMapping /\ C12_NeverMixesBlocks

====
